---- MODULE Spec2Model ----
(***************************************************************************)
(* A model of the mutable strided slice of strided-rs (src/src/mut_.rs).   *)
(*                                                                         *)
(* A program owns one buffer of elements of type T and navigates it with   *)
(* mut_::Strided views.  Addresses are byte offsets from the start of the  *)
(* buffer.  The raw layer `base` (base.rs) is not part of the sources at   *)
(* hand; the base_* operators below follow its documented contract and the *)
(* way mut_.rs calls it (Base::new(ptr, len, 1), a byte stride that        *)
(* mut_::Strided::stride divides by size_of::<T>()).                       *)
(***************************************************************************)
EXTENDS Naturals, Sequences, FiniteSets, Bags, TLC

\* ---------------------------------------------------------------- bounds
MaxBuf == 4          \* longest buffer handed to new()
MaxN == 3            \* largest n passed to substrides(n)

\* size_of::<T>() in bytes: a zero-sized T and a T wider than a byte, so that
\* a count of bytes is never a count of elements by accident.
Sizes == {0, 2}
\* The element stride a split may reach: from the buffer's length on, a view
\* has at most one element.
MaxStride == MaxBuf + 1
\* The program's variables that hold a view or a sequence, as the pair of
\* tests::get_mut, `let (mut l, mut r) = base.substrides2()`.
Holders == {"l", "r"}
MaxViews == Cardinality(Holders)
Loans == 1..(MaxViews - 1)
\* What a store writes: a value other than the 0 the buffer starts with.
Values == {1}

VARIABLES sizeOfT, buf, views, iter, loans, last

vars == <<sizeOfT, buf, views, iter, loans, last>>

\* ------------------------------------------------------- results of calls
None == [tag |-> "None"]
Panic == [tag |-> "Panic"]
Some(x) == [tag |-> "Some", val |-> x]
Ok(x) == [tag |-> "Ok", val |-> x]

NoIter == [tag |-> "NoIter"]
NoLoan == [tag |-> "NoLoan"]

\* ------------------------------------------------ the raw layer (base.rs)
base_new(data, n, elem_stride) ==
    [data |-> data, len |-> n, stride |-> elem_stride * sizeOfT]

base_len(b) == b.len

base_stride(b) == b.stride

base_substrides2(b) ==
    LET left_len == (b.len + 1) \div 2
        right_len == b.len - left_len
    IN  << [data |-> b.data, len |-> left_len, stride |-> 2 * b.stride],
           [data |-> IF right_len = 0 THEN b.data ELSE b.data + b.stride,
            len |-> right_len, stride |-> 2 * b.stride] >>

base_substrides(b, n) == [x |-> b, n |-> n, k |-> 0]

base_next(it) ==
    IF it.k >= it.n
    THEN <<None, it>>
    ELSE LET l == IF it.k >= it.x.len THEN 0
                  ELSE (it.x.len - it.k + it.n - 1) \div it.n
         IN  << Some([data |-> IF l = 0 THEN it.x.data
                               ELSE it.x.data + it.k * it.x.stride,
                      len |-> l,
                      stride |-> it.n * it.x.stride]),
                [it EXCEPT !.k = @ + 1] >>

base_size_hint(it) == <<it.n - it.k, Some(it.n - it.k)>>

base_get_mut(b, n) ==
    IF n < b.len THEN Some(b.data + n * b.stride) ELSE None

base_slice(b, from, to) ==
    IF from > to \/ to > b.len
    THEN Panic
    ELSE Ok([data |-> b.data + from * b.stride, len |-> to - from,
             stride |-> b.stride])

base_slice_from(b, from) ==
    IF from > b.len
    THEN Panic
    ELSE Ok([data |-> b.data + from * b.stride, len |-> b.len - from,
             stride |-> b.stride])

base_slice_to(b, to) ==
    IF to > b.len
    THEN Panic
    ELSE Ok([data |-> b.data, len |-> to, stride |-> b.stride])

base_split_at(b, idx) ==
    IF idx > b.len
    THEN Panic
    ELSE Ok(<< [data |-> b.data, len |-> idx, stride |-> b.stride],
               [data |-> b.data + idx * b.stride, len |-> b.len - idx,
                stride |-> b.stride] >>)

\* --------------------------------------------- mut_::Strided (mut_.rs)
\* A Strided<'a, T> is its base and its lifetime 'a: lifetime 0 is the
\* borrow of the buffer, lifetime l > 0 is the reborrow recorded in loans[l].
new_raw(base, a) == [base |-> base, lt |-> a]

new(xlen, a) == new_raw(base_new(0, xlen, 1), a)

len(v) == base_len(v.base)

stride(v) ==
    IF sizeOfT = 0 THEN Panic ELSE Ok(base_stride(v.base) \div sizeOfT)

\* A faulty reborrow, which takes the source for contiguous: the sensitivity
\* of ReborrowTransparentButStores to the stride is checked against it.
reborrow_unit(v, b) == new_raw(base_new(v.base.data, v.base.len, 1), b)

reborrow(v, b) == new_raw(v.base, b)

\* Two faulty substrides2: one returns the first half twice, the other the
\* halves in the wrong order.
substrides2_same(v) ==
    LET p == base_substrides2(v.base)
    IN  <<new_raw(p[1], v.lt), new_raw(p[1], v.lt)>>

substrides2_swapped(v) ==
    LET p == base_substrides2(v.base)
    IN  <<new_raw(p[2], v.lt), new_raw(p[1], v.lt)>>

substrides2(v) ==
    LET p == base_substrides2(v.base)
    IN  <<new_raw(p[1], v.lt), new_raw(p[2], v.lt)>>

\* A faulty substrides, which asks the raw layer for one view too many.
substrides_wider(v, n) == [base |-> base_substrides(v.base, n + 1), lt |-> v.lt]

substrides(v, n) == [base |-> base_substrides(v.base, n), lt |-> v.lt]

get_mut(v, n) == base_get_mut(v.base, n)

\* A faulty slice, which always starts at the view's first element.
slice_anchored(v, from, to) ==
    LET r == base_slice(v.base, 0, to)
    IN  IF r.tag = "Panic" THEN Panic ELSE Ok(new_raw(r.val, v.lt))

slice(v, from, to) ==
    LET r == base_slice(v.base, from, to)
    IN  IF r.tag = "Panic" THEN Panic ELSE Ok(new_raw(r.val, v.lt))

slice_from(v, from) ==
    LET r == base_slice_from(v.base, from)
    IN  IF r.tag = "Panic" THEN Panic ELSE Ok(new_raw(r.val, v.lt))

slice_to(v, to) ==
    LET r == base_slice_to(v.base, to)
    IN  IF r.tag = "Panic" THEN Panic ELSE Ok(new_raw(r.val, v.lt))

\* A faulty split_at, which returns the parts in the wrong order.
split_at_swapped(v, idx) ==
    LET r == base_split_at(v.base, idx)
    IN  IF r.tag = "Panic" THEN Panic
        ELSE Ok(<<new_raw(r.val[2], v.lt), new_raw(r.val[1], v.lt)>>)

split_at(v, idx) ==
    LET r == base_split_at(v.base, idx)
    IN  IF r.tag = "Panic" THEN Panic
        ELSE Ok(<<new_raw(r.val[1], v.lt), new_raw(r.val[2], v.lt)>>)

\* A faulty index_mut, which falls back on the first element's address
\* where get_mut finds nothing.
index_mut_unchecked(v, n) ==
    LET r == get_mut(v, n)
    IN  IF r.tag = "None" THEN Ok(v.base.data) ELSE Ok(r.val)

index_mut(v, n) ==
    LET r == get_mut(v, n)
    IN  IF r.tag = "None" THEN Panic ELSE Ok(r.val)

\* A faulty next, which advances the raw sequence twice for one view.
next_skipping(it) ==
    LET p == base_next(it.base)
        q == base_next(p[2])
    IN  << IF p[1].tag = "Some" THEN Some(new_raw(p[1].val, it.lt)) ELSE None,
           [it EXCEPT !.base = q[2]] >>

\* Substrides::next takes &mut self: the result and the advanced iterator.
next(it) ==
    LET p == base_next(it.base)
    IN  << IF p[1].tag = "Some" THEN Some(new_raw(p[1].val, it.lt)) ELSE None,
           [it EXCEPT !.base = p[2]] >>

\* A faulty size_hint, which gives no upper bound.
size_hint_open(it) == <<base_size_hint(it.base)[1], None>>

size_hint(it) == base_size_hint(it.base)

\* ------------------------------------------------------------ the program
\* views: the bag of views the program can use now.  A view that is
\* reborrowed is held by its loan until the reborrow's lifetime ends.
\* Byte addresses of the elements a view reaches, and the bytes they occupy.
Addr(v, i) == v.base.data + i * v.base.stride

Elements(v) == {Addr(v, i) : i \in 0..(v.base.len - 1)}

Touched(v) == {a + j : a \in Elements(v), j \in 0..(sizeOfT - 1)}

Usable == BagToSet(views)

One(v) == SetToBag({v})

Panicked == last.res.tag = "Panic"

\* A panic unwinds the program: every view, sequence and reborrow it held is
\* dropped, and nothing runs after it.
Unwind ==
    /\ views' = EmptyBag
    /\ iter' = NoIter
    /\ loans' = [l \in Loans |-> NoLoan]

\* The views and sequences the program holds: usable, lent out, or a sequence.
Live ==
    BagCardinality(views) + Cardinality({l \in Loans : loans[l] # NoLoan})
        + (IF iter = NoIter THEN 0 ELSE 1)

\* Arguments a call on v is tried with: every valid index and two past it.
Args(v) == 0..(v.base.len + 1)

\* Lifetime l and the lifetimes it is nested in.
RECURSIVE Outer(_)
Outer(l) == IF l = 0 THEN {} ELSE {l} \cup Outer(loans[l].src.lt)

\* The values a view shows, in index order.
Shown(v, mem) ==
    [i \in 1..v.base.len |->
        IF sizeOfT = 0 THEN 0 ELSE mem[(Addr(v, i - 1) \div sizeOfT) + 1]]

Init ==
    /\ sizeOfT \in Sizes
    /\ \E n \in 0..MaxBuf :
         /\ buf = [i \in 1..n |-> 0]
         /\ views = One(new(n, 0))
         /\ last = [op |-> "new", xlen |-> n, res |-> Ok(new(n, 0))]
    /\ iter = NoIter
    /\ loans = [l \in Loans |-> NoLoan]

DoLen(v) ==
    /\ ~Panicked
    /\ last' = [op |-> "len", self |-> v, res |-> Ok(len(v))]
    /\ UNCHANGED <<sizeOfT, buf, views, iter, loans>>

DoStride(v) ==
    /\ ~Panicked
    /\ last' = [op |-> "stride", self |-> v, res |-> stride(v)]
    /\ IF stride(v).tag = "Panic" THEN Unwind
       ELSE UNCHANGED <<views, iter, loans>>
    /\ UNCHANGED <<sizeOfT, buf>>

\* reborrow(&'b mut self): the source is borrowed for 'b and cannot be used
\* until every view of lifetime 'b is gone.
DoReborrow(v) ==
    /\ ~Panicked
    /\ Live < MaxViews
    /\ \E l \in Loans :
         /\ loans[l] = NoLoan
         /\ \A k \in Loans : k < l => loans[k] # NoLoan
         /\ LET r == reborrow(v, l)
            IN  /\ views' = (views (-) One(v)) (+) One(r)
                /\ loans' = [loans EXCEPT ![l] =
                                [src |-> v, snap |-> Shown(v, buf),
                                 written |-> {}]]
                /\ last' = [op |-> "reborrow", self |-> v, res |-> Ok(r)]
    /\ UNCHANGED <<sizeOfT, buf, iter>>

\* The end of lifetime l: the views and the sequence of that lifetime are
\* gone, and the source of the reborrow is usable again.
EndReborrow(l) ==
    /\ ~Panicked
    /\ loans[l] # NoLoan
    /\ \A k \in Loans : loans[k] # NoLoan => loans[k].src.lt # l
    /\ LET ended == {v \in Usable : v.lt = l}
       IN  /\ views' = [v \in (Usable \ ended) \cup {loans[l].src} |->
                           IF v \in Usable THEN views[v] ELSE 1]
           /\ last' = [op |-> "end_reborrow", lt |-> l, before |-> loans[l].src,
                       snap |-> loans[l].snap, written |-> loans[l].written,
                       ended |-> ended, res |-> Ok(loans[l].src)]
    /\ iter' = IF iter # NoIter /\ iter.it.lt = l THEN NoIter ELSE iter
    /\ loans' = [loans EXCEPT ![l] = NoLoan]
    /\ UNCHANGED <<sizeOfT, buf>>

DoSubstrides2(v) ==
    /\ ~Panicked
    /\ v.base.stride * 2 <= MaxStride * sizeOfT
    /\ Live < MaxViews
    /\ LET p == substrides2(v)
       IN  /\ views' = (views (-) One(v)) (+) One(p[1]) (+) One(p[2])
           /\ last' = [op |-> "substrides2", self |-> v, res |-> Ok(p)]
    /\ UNCHANGED <<sizeOfT, buf, iter, loans>>

\* substrides(self, n): the view is consumed into the sequence.  Beside the
\* Substrides value, iter keeps the consumed view, n, the number of calls of
\* next so far (counted up to n + 1: from then on a call changes nothing) and
\* the views they returned.
DoSubstrides(v, n) ==
    /\ ~Panicked
    /\ iter = NoIter
    /\ v.base.stride * n <= MaxStride * sizeOfT
    /\ views' = views (-) One(v)
    /\ iter' = [it |-> substrides(v, n), parent |-> v, n |-> n,
                calls |-> 0, out |-> <<>>]
    /\ last' = [op |-> "substrides", self |-> v, n |-> n,
                res |-> Ok(substrides(v, n))]
    /\ UNCHANGED <<sizeOfT, buf, loans>>

DoNext ==
    /\ ~Panicked
    /\ iter # NoIter
    /\ LET p == next(iter.it)
       IN  /\ p[1].tag = "Some" => Live < MaxViews
           /\ views' = IF p[1].tag = "Some" THEN views (+) One(p[1].val)
                       ELSE views
           /\ iter' = [iter EXCEPT !.it = p[2],
                          !.calls = IF @ > iter.n THEN @ ELSE @ + 1,
                          !.out = IF p[1].tag = "Some"
                                  THEN Append(@, p[1].val) ELSE @]
           /\ last' = [op |-> "next", res |-> p[1]]
    /\ UNCHANGED <<sizeOfT, buf, loans>>

DoSizeHint ==
    /\ ~Panicked
    /\ iter # NoIter
    /\ last' = [op |-> "size_hint", res |-> Ok(size_hint(iter.it))]
    /\ UNCHANGED <<sizeOfT, buf, views, iter, loans>>

DoGetMut(v, n) ==
    /\ ~Panicked
    /\ last' = [op |-> "get_mut", self |-> v, n |-> n, res |-> Ok(get_mut(v, n))]
    /\ UNCHANGED <<sizeOfT, buf, views, iter, loans>>

DoIndexMut(v, n) ==
    /\ ~Panicked
    /\ last' = [op |-> "index_mut", self |-> v, n |-> n, res |-> index_mut(v, n)]
    /\ IF index_mut(v, n).tag = "Panic" THEN Unwind
       ELSE UNCHANGED <<views, iter, loans>>
    /\ UNCHANGED <<sizeOfT, buf>>

\* A store through the reference get_mut returned: size_of::<T>() bytes at
\* the element's address.
Store(v, n, x) ==
    /\ ~Panicked
    /\ sizeOfT > 0
    /\ LET r == get_mut(v, n)
       IN  /\ r.tag = "Some"
           /\ (r.val \div sizeOfT) + 1 \in DOMAIN buf
           /\ buf' = [buf EXCEPT ![(r.val \div sizeOfT) + 1] = x]
           /\ loans' = [l \in Loans |->
                          IF l \in Outer(v.lt)
                          THEN [loans[l] EXCEPT !.written = @ \cup {r.val}]
                          ELSE loans[l]]
           /\ last' = [op |-> "store", self |-> v, n |-> n, res |-> Ok(r)]
    /\ UNCHANGED <<sizeOfT, views, iter>>

DoSlice(v, from, to) ==
    /\ ~Panicked
    /\ LET r == slice(v, from, to)
       IN  /\ IF r.tag = "Panic" THEN Unwind
              ELSE /\ views' = (views (-) One(v)) (+) One(r.val)
                   /\ UNCHANGED <<iter, loans>>
           /\ last' = [op |-> "slice", self |-> v, from |-> from, to |-> to,
                       res |-> r]
    /\ UNCHANGED <<sizeOfT, buf>>

DoSliceFrom(v, from) ==
    /\ ~Panicked
    /\ LET r == slice_from(v, from)
       IN  /\ IF r.tag = "Panic" THEN Unwind
              ELSE /\ views' = (views (-) One(v)) (+) One(r.val)
                   /\ UNCHANGED <<iter, loans>>
           /\ last' = [op |-> "slice_from", self |-> v, from |-> from,
                       res |-> r]
    /\ UNCHANGED <<sizeOfT, buf>>

DoSliceTo(v, to) ==
    /\ ~Panicked
    /\ LET r == slice_to(v, to)
       IN  /\ IF r.tag = "Panic" THEN Unwind
              ELSE /\ views' = (views (-) One(v)) (+) One(r.val)
                   /\ UNCHANGED <<iter, loans>>
           /\ last' = [op |-> "slice_to", self |-> v, to |-> to, res |-> r]
    /\ UNCHANGED <<sizeOfT, buf>>

DoSplitAt(v, idx) ==
    /\ ~Panicked
    /\ Live < MaxViews
    /\ LET r == split_at(v, idx)
       IN  /\ IF r.tag = "Panic" THEN Unwind
              ELSE /\ views' = (views (-) One(v)) (+) One(r.val[1])
                                   (+) One(r.val[2])
                   /\ UNCHANGED <<iter, loans>>
           /\ last' = [op |-> "split_at", self |-> v, idx |-> idx, res |-> r]
    /\ UNCHANGED <<sizeOfT, buf>>

\* A view or a sequence that goes out of scope.
DropView(v) ==
    /\ ~Panicked
    /\ views' = views (-) One(v)
    /\ last' = [op |-> "drop", res |-> Ok(0)]
    /\ UNCHANGED <<sizeOfT, buf, iter, loans>>

DropIter ==
    /\ ~Panicked
    /\ iter # NoIter
    /\ iter' = NoIter
    /\ last' = [op |-> "drop_iter", res |-> Ok(0)]
    /\ UNCHANGED <<sizeOfT, buf, views, loans>>

\* The operations by what they change.  A split or a cut replaces a view by
\* views; the sequence operations draw the views of substrides(n); borrowing
\* suspends and restores a view; a read changes nothing but `last`; a store
\* changes buf and the loans' record of what was written, never a view.
Split2 == \E v \in Usable : DoSubstrides2(v)

Cut ==
    \/ \E v \in Usable : \E from \in Args(v), to \in Args(v) : DoSlice(v, from, to)
    \/ \E v \in Usable : \E from \in Args(v) : DoSliceFrom(v, from)
    \/ \E v \in Usable : \E to \in Args(v) : DoSliceTo(v, to)
    \/ \E v \in Usable : \E idx \in Args(v) : DoSplitAt(v, idx)

Scope == \E v \in Usable : DropView(v)

Sequence ==
    \/ \E v \in Usable, n \in 1..MaxN : DoSubstrides(v, n)
    \/ DoNext
    \/ DoSizeHint
    \/ DropIter

Borrow ==
    \/ \E v \in Usable : DoReborrow(v)
    \/ \E l \in Loans : EndReborrow(l)

Read ==
    \/ \E v \in Usable : DoLen(v)
    \/ \E v \in Usable : DoStride(v)
    \/ \E v \in Usable : \E n \in Args(v) : DoGetMut(v, n)
    \/ \E v \in Usable : \E n \in Args(v) : DoIndexMut(v, n)

Write ==
    \E v \in Usable : \E n \in Args(v), x \in Values : Store(v, n, x)

Next == Split2 \/ Cut \/ Scope \/ Sequence \/ Borrow \/ Read \/ Write

Spec == Init /\ [][Next]_vars

\* The program restricted to the operations a property is about.
SpecNav == Init /\ [][Split2 \/ Cut \/ Scope]_vars

SpecSeq == Init /\ [][Sequence \/ Scope]_vars

SpecRead == Init /\ [][Split2 \/ Cut \/ Scope \/ Read]_vars

SpecOwn == Init /\ [][Split2 \/ Cut \/ Scope \/ Sequence \/ Borrow]_vars

SpecBorrow == Init /\ [][Split2 \/ Scope \/ Sequence \/ Borrow \/ Write
                          \/ (\E v \in Usable : \E from \in Args(v) :
                                 DoSliceFrom(v, from))]_vars

\* ------------------------------------------------------------- properties
Min(a, b) == IF a < b THEN a ELSE b

\* ceil(a / n) for a >= 0: the least c with c * n >= a.
CeilDiv(a, n) == CHOOSE c \in 0..a : c * n >= a /\ \A d \in 0..a : d * n >= a => c <= d

\* The byte addresses a view reaches, in index order.
AddrSeq(v) == [i \in 1..v.base.len |-> Addr(v, i - 1)]

\* The views the sequence has still to return, in order.
RECURSIVE Rest(_)
Rest(it) ==
    LET p == next(it)
    IN  IF p[1].tag = "Some" THEN <<p[1].val>> \o Rest(p[2]) ELSE <<>>

Pending == IF iter = NoIter THEN <<>> ELSE Rest(iter.it)

\* C1: any two views usable at the same moment address disjoint elements;
\* so do a usable view and a view the sequence has still to return, and any
\* two views the sequence has still to return.
NonAliasing ==
    /\ \A v \in Usable : \A w \in Usable :
          v # w => Touched(v) \cap Touched(w) = {}
    /\ \A v \in Usable : CopiesIn(v, views) > 1 => Touched(v) = {}
    /\ \A j \in DOMAIN Pending :
          /\ \A v \in Usable : Touched(v) \cap Touched(Pending[j]) = {}
          /\ \A k \in DOMAIN Pending :
                j # k => Touched(Pending[j]) \cap Touched(Pending[k]) = {}

\* Two usable views of two or more elements each, interleaved in memory.
NonAliasingWitness ==
    /\ sizeOfT > 0
    /\ \E v \in Usable : \E w \in Usable :
          v # w /\ v.base.len >= 2 /\ w.base.len >= 2
             /\ v.base.stride > sizeOfT

\* C2: substrides2 succeeds for every length and returns two views of twice
\* the stride, element i of the first being the parent's element 2i and
\* element i of the second the parent's element 2i + 1, with lengths
\* ceil(L/2) and floor(L/2).
Substrides2Alternates ==
    last.op = "substrides2" =>
        /\ last.res.tag = "Ok"
        /\ LET v == last.self
               l == last.res.val[1]
               r == last.res.val[2]
           IN  /\ l.base.stride = 2 * v.base.stride
               /\ r.base.stride = 2 * v.base.stride
               /\ sizeOfT > 0 =>
                     /\ stride(l) = Ok(2 * stride(v).val)
                     /\ stride(r) = Ok(2 * stride(v).val)
               /\ len(l) = CeilDiv(len(v), 2)
               /\ len(r) = len(v) \div 2
               /\ \A i \in 0..(len(l) - 1) : Addr(l, i) = Addr(v, 2 * i)
               /\ \A i \in 0..(len(r) - 1) : Addr(r, i) = Addr(v, 2 * i + 1)

Substrides2Witness ==
    /\ last.op = "substrides2"
    /\ sizeOfT > 0
    /\ len(last.self) = 3
    /\ len(last.res.val[1]) = 2
    /\ len(last.res.val[2]) = 1

\* C3: the views substrides(n) returns have lengths ceil((L - k) / n) for
\* k = 0..n-1, which sum to L: the remainder goes to the earliest views.
RECURSIVE SumLen(_)
SumLen(s) == IF s = <<>> THEN 0 ELSE len(Head(s)) + SumLen(Tail(s))

LengthConservation ==
    iter # NoIter =>
        /\ \A j \in DOMAIN iter.out :
              len(iter.out[j]) =
                 IF j - 1 >= len(iter.parent) THEN 0
                 ELSE CeilDiv(len(iter.parent) - (j - 1), iter.n)
        /\ iter.calls >= iter.n => SumLen(iter.out) = len(iter.parent)

LengthConservationWitness ==
    /\ iter # NoIter
    /\ iter.n = 2
    /\ len(iter.parent) = 3
    /\ Len(iter.out) = 2
    /\ len(iter.out[1]) = 2
    /\ len(iter.out[2]) = 1

\* C4: substrides(n) returns exactly n views, in order k = 0..n-1, each of
\* stride S * n, view k addressing the parent's indices k, k + n, ... below
\* L; views past the parent's length are empty.
SubstridesInterleave ==
    iter # NoIter =>
        /\ Len(iter.out) = Min(iter.calls, iter.n)
        /\ \A j \in DOMAIN iter.out :
              LET w == iter.out[j]
                  idx == {i \in 0..(len(iter.parent) - 1) : i % iter.n = j - 1}
              IN  /\ w.base.stride = iter.n * iter.parent.base.stride
                  /\ sizeOfT > 0 => stride(w) = Ok(iter.n * stride(iter.parent).val)
                  /\ len(w) = Cardinality(idx)
                  /\ \A i \in 0..(len(w) - 1) :
                        Addr(w, i) = Addr(iter.parent, (j - 1) + i * iter.n)

SubstridesInterleaveWitness ==
    /\ iter # NoIter
    /\ sizeOfT > 0
    /\ iter.n = 3
    /\ len(iter.parent) = 2
    /\ Len(iter.out) = 3
    /\ len(iter.out[2]) = 1
    /\ len(iter.out[3]) = 0

\* C5: slice(from, to) panics exactly when from > to or to > L; otherwise it
\* returns a view of the same stride and length to - from whose element i is
\* the parent's element from + i.
SliceContract ==
    last.op = "slice" =>
        LET v == last.self
        IN  /\ last.res.tag = "Panic" <=> (last.from > last.to \/ last.to > len(v))
            /\ last.res.tag # "Panic" =>
                  LET w == last.res.val
                  IN  /\ last.res.tag = "Ok"
                      /\ w.base.stride = v.base.stride
                      /\ len(w) = last.to - last.from
                      /\ \A i \in 0..(len(w) - 1) :
                            Addr(w, i) = Addr(v, last.from + i)

SliceWitness ==
    /\ last.op = "slice"
    /\ last.res.tag = "Ok"
    /\ sizeOfT > 0
    /\ last.self.base.stride > sizeOfT
    /\ 0 < last.from
    /\ last.from < last.to

\* The empty and the full range succeed.
SliceEdgeWitness ==
    /\ last.op = "slice"
    /\ last.res.tag = "Ok"
    /\ last.from = last.to
    /\ last.from = len(last.self)
    /\ last.from > 0

\* C6: split_at(idx) panics exactly when idx > L; otherwise it returns the
\* pair (slice_to(idx), slice_from(idx)), and the first part followed by the
\* second addresses the parent's elements in the parent's order.
SplitAtContract ==
    last.op = "split_at" =>
        LET v == last.self
        IN  /\ last.res.tag = "Panic" <=> last.idx > len(v)
            /\ last.res.tag # "Panic" =>
                  /\ last.res.tag = "Ok"
                  /\ slice_to(v, last.idx) = Ok(last.res.val[1])
                  /\ slice_from(v, last.idx) = Ok(last.res.val[2])
                  /\ AddrSeq(last.res.val[1]) \o AddrSeq(last.res.val[2])
                        = AddrSeq(v)

SplitAtWitness ==
    /\ last.op = "split_at"
    /\ last.res.tag = "Ok"
    /\ sizeOfT > 0
    /\ last.self.base.stride > sizeOfT
    /\ 0 < last.idx
    /\ last.idx < len(last.self)

\* C7: for i < len(), get_mut(i) and index_mut(i) return the same element,
\* element i of the view; for i >= len(), get_mut(i) is None and
\* index_mut(i) panics.
GetIndexAgree ==
    /\ last.op = "get_mut" =>
          LET v == last.self
          IN  /\ last.res.tag = "Ok"
              /\ last.n < len(v) =>
                    /\ last.res.val = Some(Addr(v, last.n))
                    /\ index_mut(v, last.n) = Ok(last.res.val.val)
                    /\ last.res.val.val \in Elements(v)
              /\ last.n >= len(v) => last.res.val = None
    /\ last.op = "index_mut" =>
          LET v == last.self
          IN  /\ last.n < len(v) =>
                    /\ last.res = Ok(Addr(v, last.n))
                    /\ get_mut(v, last.n) = Some(last.res.val)
                    /\ last.res.val \in Elements(v)
              /\ last.n >= len(v) => last.res = Panic

GetIndexWitness ==
    /\ last.op = "index_mut"
    /\ last.res.tag = "Ok"
    /\ sizeOfT > 0
    /\ last.self.base.stride > sizeOfT
    /\ last.self.base.data > 0
    /\ last.n > 0

\* C8 as stated: reborrow returns a view of the same length, stride and
\* elements, and once the reborrow has ended the original is usable and shows
\* the length, stride and element values it showed before the reborrow.
ReborrowTransparent ==
    /\ last.op = "reborrow" =>
          /\ len(last.res.val) = len(last.self)
          /\ last.res.val.base.stride = last.self.base.stride
          /\ AddrSeq(last.res.val) = AddrSeq(last.self)
    /\ last.op = "end_reborrow" =>
          /\ last.before \in Usable
          /\ last.res.val = last.before
          /\ Shown(last.before, buf) = last.snap

\* C8 amended: reborrow returns a view of the same length, stride and
\* elements, and once the reborrow has ended the original is usable and shows
\* the length, stride and elements it showed before; no view of the
\* reborrow's lifetime
\* is left; and its element values are those of before the reborrow except
\* where a store was made through a view of the reborrow, which reaches only
\* elements of the original.
ReborrowTransparentButStores ==
    /\ last.op = "reborrow" =>
          /\ len(last.res.val) = len(last.self)
          /\ last.res.val.base.stride = last.self.base.stride
          /\ AddrSeq(last.res.val) = AddrSeq(last.self)
    /\ last.op = "end_reborrow" =>
          /\ last.before \in Usable
          /\ last.res.val = last.before
          /\ \A w \in Usable : w.lt # last.lt
          /\ iter # NoIter => iter.it.lt # last.lt
          /\ last.written \subseteq Elements(last.before)
          /\ \A i \in 1..len(last.before) :
                Addr(last.before, i - 1) \notin last.written =>
                    Shown(last.before, buf)[i] = last.snap[i]

\* A reborrowed view that was cut, stored through and ended.
ReborrowWitness ==
    /\ last.op = "end_reborrow"
    /\ last.written # {}
    /\ last.written # Elements(last.before)
    /\ \E w \in last.ended : len(w) < len(last.before)

\* C9: after e calls of next, size_hint is (n - min(e, n), Some(the same));
\* next returns a view on each of the first n calls and None afterwards.
SizeHintExact ==
    /\ iter # NoIter =>
          size_hint(iter.it) =
             << iter.n - Min(iter.calls, iter.n),
                Some(iter.n - Min(iter.calls, iter.n)) >>
    /\ (last.op = "size_hint" /\ iter # NoIter) =>
          last.res = Ok(<< iter.n - Min(iter.calls, iter.n),
                           Some(iter.n - Min(iter.calls, iter.n)) >>)
    /\ (last.op = "next" /\ iter # NoIter) =>
          (last.res.tag = "Some" <=> iter.calls <= iter.n)
    /\ last.op = "next" => last.res.tag \in {"Some", "None"}

SizeHintWitness ==
    /\ last.op = "size_hint"
    /\ iter # NoIter
    /\ iter.n = 3
    /\ iter.calls = 2
    /\ last.res.val[1] = 1

\* C10 as stated: len() and stride() always succeed, for every element
\* size, and stride() is the spacing in elements.
LenStrideTotal ==
    /\ last.op = "len" => last.res = Ok(last.self.base.len)
    /\ last.op = "stride" =>
          /\ last.res.tag = "Ok"
          /\ last.res.val * sizeOfT = last.self.base.stride
====
